---- MODULE Spec2Model ----
(***************************************************************************)
(* A model of the OreSat Linux App Framework CANopen node                  *)
(* (src/olaf/canopen/node.py): the bus supervisor of Node.run /            *)
(* Node._monitor_can, Node.stop, the finalizer Node.__del__, the PDO and   *)
(* EMCY senders and the SYNC handler.                                      *)
(*                                                                         *)
(* Calls into python-canopen, python-can, psutil and the OS are modelled   *)
(* by their effect on the fields of Node; where such a call may raise, the *)
(* action that makes it draws the outcome with \E.                         *)
(***************************************************************************)
EXTENDS Integers, Sequences, FiniteSets, TLC

VARIABLES
    \* ---- the environment the node runs in
    bus_type,         \* self._bus.channel_info.split(" ")[0]
    euid_root,        \* os.geteuid() == 0
    if_stats,         \* psutil.net_if_stats().get(channel): "absent", "down", "up"
    path_exists,      \* os.path.exists(channel)
    \* ---- the fields of Node
    bus_state,        \* self._bus_state
    node,             \* self._node: "None" or "LocalNode"
    nmt_state,        \* self._node.nmt.state ("INITIALISING" while there is no node)
    network,          \* self._network: "None", "empty", "attached", "disconnected"
    event,            \* self._event.is_set()
    reset,            \* self._reset
    first_bus_reset,  \* self.first_bus_reset
    first_bus_down,   \* the local flag of _monitor_can
    tpdo_timers,      \* self._tpdo_timers, the set of running timers
    syncs,            \* self._syncs
    bus_shutdown,     \* self._bus.shutdown() has been called
    \* ---- the position of the thread that calls run()
    pc,               \* "idle", "head", "body", "wait", "exited", "returned", "finalized"
    retval,           \* what run() returned (0 until it returns)
    exc_escaped,      \* an exception escaped _monitor_can and was caught by run()
    \* ---- observations
    stop_log,         \* the arguments of the stop() calls made so far, in order
    io,               \* the I/O done by the latest step of the thread in run()
    pdo,              \* the latest send_tpdo / send_rpdo / send_emcy call and its outcome
    \* ---- the SYNC handler
    tt,               \* OD[0x1800 + n][2].value for n in 0..15
    sync_calls,       \* the numbers the latest SYNC called send_tpdo with, in order
    sync_frames,      \* the communication parameters it handed to _send_pdo, in order
    sync_exc,         \* the exception that ended the latest SYNC handler, or "none"
    since_emit,       \* per slot: SYNC frames after the one that last sent its PDO (-1: none did)
    last_gap,         \* per slot: SYNC frames from its last but one sending to its last (0: none)
    \* ---- the object dictionary and the SDO callbacks
    od_value,         \* self.od[...].value of the objects of the model
    read_cbs,         \* the keys of self._read_cbs
    write_cbs,        \* the keys of self._write_cbs
    sdo,              \* the latest call of an SDO or RPDO handler and its outcome
    \* ---- a _send_pdo call that runs while the dictionary is written
    tx,               \* the position of the call in its loop and the data it has packed
    od_seen,          \* the values the mapped objects held together at some time of the call
    \* ---- the helpers a resource calls on the dictionary
    bf,               \* the latest od_write_bitfield / od_read_bitfield call and its position
    odw,              \* the latest od_write call and its outcome
    app,              \* App: the registered resources and the position of App.run
    cob               \* App.setup: the node id, the default COB-IDs and the COB-IDs set

envVars  == <<bus_type, euid_root, if_stats, path_exists>>
nodeVars == <<bus_state, node, nmt_state, network, first_bus_reset, first_bus_down,
              tpdo_timers, bus_shutdown>>
runVars  == <<pc, retval, exc_escaped, io>>
stopVars == <<event, reset, stop_log>>
syncVars == <<syncs, tt, sync_calls, sync_frames, sync_exc, since_emit, last_gap>>
sdoVars  == <<od_value, read_cbs, write_cbs, sdo>>
snapVars == <<tx, od_seen>>
appVars  == <<app, cob>>
helpVars == <<bf, odw, appVars>>
auxVars  == <<snapVars, helpVars>>
vars     == <<envVars, nodeVars, runVars, stopVars, pdo, syncVars, sdoVars, auxVars>>

----------------------------------------------------------------------------
(* Bounds of the model *)

\* stop() is called at most this many times in one behaviour
MaxStops == 2

\* a PDO mapping parameter holds at most this many map entries in the model
MaxMapEntries == 2
MaxResources == 3

----------------------------------------------------------------------------
(* NodeStop, CanState *)

NoReset       == 0     \* stop(reset=None)
SOFT_RESET    == 1
HARD_RESET    == 2
FACTORY_RESET == 3
POWER_OFF     == 4

NodeStop == {SOFT_RESET, HARD_RESET, FACTORY_RESET, POWER_OFF}

CanState == {"BUS_UP_NETWORK_UP", "BUS_UP_NETWORK_DOWN", "BUS_DOWN", "BUS_NOT_FOUND"}

NmtStates == {"INITIALISING", "PRE-OPERATIONAL", "OPERATIONAL", "STOPPED"}

\* bool(self._network): a canopen.Network is a mapping of its nodes, so one that
\* holds no node is false
NetTruthy(net) == net \in {"attached", "disconnected"}

----------------------------------------------------------------------------
(* Node.stop *)

StopReset_KeepsNone(r, cur) == r

\* the value of self._reset after stop(r)
StopReset(r, cur) == IF r # NoReset THEN r ELSE cur

Stop(r) ==
    /\ pc \notin {"returned", "finalized"}
    /\ Len(stop_log) < MaxStops
    /\ reset' = StopReset(r, reset)
    /\ event' = TRUE
    /\ stop_log' = Append(stop_log, r)
    /\ UNCHANGED <<envVars, nodeVars, runVars, pdo, syncVars, sdoVars, auxVars>>

----------------------------------------------------------------------------
(* Node.send_emcy, as far as the supervisor needs it *)

\* send_emcy(code, data, raise_exception=False) puts an EMCY frame on the bus:
\* a network exists, the node handle's producer is there to be called
\* (self._node.emcy.send on None raises AttributeError, which is swallowed),
\* and the transport did not raise
EmcyEmitted(net, nd, tx_ok) == net # "None" /\ nd # "None" /\ tx_ok

----------------------------------------------------------------------------
(* Node._destroy_node, Node._disable_network, Node._restart_network,       *)
(* Node._restart_bus                                                       *)

DestroyedNode_Keeps(nd) == nd

\* self._node after _destroy_node()
DestroyedNode(nd) == "None"

\* _disable_network(); raises: self._network.disconnect() raises
DisableNetwork(net, nd, timers, raises) ==
    IF NetTruthy(net) /\ raises
    THEN [network |-> "None", node |-> "None", timers |-> timers, io |-> {"net_stop"}]
    ELSE [network |-> IF NetTruthy(net) THEN "disconnected" ELSE net,
          node    |-> DestroyedNode(nd),
          timers  |-> {},
          io      |-> IF NetTruthy(net) THEN {"net_stop"} ELSE {}]

\* the places where _restart_network() may raise: Notifier(...) (the network is
\* assigned and holds no node yet) and self._node.rpdo.read() (all is set up)
RestartRaises == {"none", "notifier", "rpdo"}

\* _restart_network(); nmt_ok: start_heartbeat and the NMT state change do not raise
RestartNetwork(nd, nmt, raises, nmt_ok) ==
    IF raises = "notifier"
    THEN [network |-> "empty", node |-> nd, nmt |-> nmt, raised |-> TRUE]
    ELSE [network |-> "attached",
          node    |-> "LocalNode",
          nmt     |-> IF nmt_ok THEN "OPERATIONAL" ELSE "INITIALISING",
          raised  |-> raises = "rpdo"]

\* _restart_bus(send_emcy), called with the network and node handle as they are
RestartBus(send_emcy, net, nd, fbr, tx_ok) ==
    IF path_exists
    THEN [first_bus_reset |-> fbr, io |-> {"path_probe"}]
    ELSE [first_bus_reset |-> FALSE,
          io |-> {"path_probe"}
                 \cup (IF euid_root THEN {"link_reset"} ELSE {})
                 \cup (IF send_emcy /\ EmcyEmitted(net, nd, tx_ok) THEN {"emcy"} ELSE {})]

----------------------------------------------------------------------------
(* Node._monitor_can and Node.run *)

\* the classification of one tick
Classify(stats, exists, net) ==
    IF stats = "absent" /\ ~exists THEN "BUS_NOT_FOUND"
    ELSE IF stats = "down" \/ exists THEN "BUS_DOWN"
    ELSE IF ~NetTruthy(net) THEN "BUS_UP_NETWORK_DOWN"
    ELSE "BUS_UP_NETWORK_UP"

\* os.path.exists is evaluated unless the interface record says "down"
TickProbes(stats) == {"if_probe"} \cup (IF stats # "down" THEN {"path_probe"} ELSE {})

LogsCritical_Always(fbd) == TRUE

\* "if first_bus_down: logger.critical(...)" on a tick that finds no interface
LogsCritical(fbd) == fbd

LoopContinues_Always(ev) == TRUE

\* the loop condition of _monitor_can: while not self._event.is_set()
LoopContinues(ev) == ~ev

\* run() up to the first evaluation of the loop condition
MonitorEntry ==
    /\ pc = "idle"
    /\ \E raises \in RestartRaises, nmt_ok \in BOOLEAN :
         LET rb == RestartBus(FALSE, network, node, TRUE, TRUE)
             rn == RestartNetwork(node, nmt_state, raises, nmt_ok)
         IN  /\ first_bus_down' = TRUE
             /\ first_bus_reset' = rb.first_bus_reset
             /\ IF bus_type = "socketcand"
                THEN /\ network' = rn.network
                     /\ node' = rn.node
                     /\ nmt_state' = rn.nmt
                     /\ bus_state' = IF rn.raised THEN bus_state ELSE "BUS_UP_NETWORK_UP"
                     /\ pc' = IF rn.raised THEN "exited" ELSE "head"
                     /\ exc_escaped' = rn.raised
                     /\ io' = rb.io \cup {"net_start"}
                ELSE /\ raises = "none" /\ nmt_ok
                     /\ UNCHANGED <<network, node, nmt_state, bus_state, exc_escaped>>
                     /\ pc' = "head"
                     /\ io' = rb.io
    /\ retval' = retval
    /\ UNCHANGED <<envVars, tpdo_timers, bus_shutdown, stopVars, pdo, syncVars, sdoVars, auxVars>>

\* the loop condition, and for socketcand the whole iteration up to the wait
MonitorHead ==
    /\ pc = "head"
    /\ pc' = IF ~LoopContinues(event) THEN "exited"
             ELSE IF bus_type = "socketcand" THEN "wait" ELSE "body"
    /\ io' = {}
    /\ UNCHANGED <<envVars, nodeVars, retval, exc_escaped, stopVars, pdo, syncVars, sdoVars, auxVars>>

\* one tick on a transport that is not socketcand
MonitorBody ==
    /\ pc = "body"
    /\ \E disc_raises \in BOOLEAN, raises \in RestartRaises, nmt_ok \in BOOLEAN,
          tx_ok \in BOOLEAN :
         LET cls == Classify(if_stats, path_exists, network)
             dn  == DisableNetwork(network, node, tpdo_timers, disc_raises)
             rb  == RestartBus(TRUE, dn.network, dn.node, first_bus_reset, tx_ok)
             rn  == RestartNetwork(node, nmt_state, raises, nmt_ok)
         IN  /\ bus_state' = cls
             /\ CASE cls = "BUS_NOT_FOUND" ->
                       /\ raises = "none" /\ nmt_ok
                       /\ network' = dn.network
                       /\ node' = dn.node
                       /\ nmt_state' = "INITIALISING"
                       /\ tpdo_timers' = dn.timers
                       /\ first_bus_down' = FALSE
                       /\ first_bus_reset' = first_bus_reset
                       /\ io' = TickProbes(if_stats) \cup dn.io
                                \cup (IF LogsCritical(first_bus_down) THEN {"critical"}
                                      ELSE {})
                       /\ pc' = "wait"
                       /\ exc_escaped' = exc_escaped
                  [] cls = "BUS_DOWN" ->
                       /\ raises = "none" /\ nmt_ok
                       /\ network' = dn.network
                       /\ node' = dn.node
                       /\ nmt_state' = "INITIALISING"
                       /\ tpdo_timers' = dn.timers
                       /\ first_bus_down' = TRUE
                       /\ first_bus_reset' = rb.first_bus_reset
                       /\ io' = TickProbes(if_stats) \cup dn.io \cup rb.io
                       /\ pc' = "wait"
                       /\ exc_escaped' = exc_escaped
                  [] cls = "BUS_UP_NETWORK_DOWN" ->
                       /\ ~disc_raises
                       /\ network' = rn.network
                       /\ node' = rn.node
                       /\ nmt_state' = rn.nmt
                       /\ tpdo_timers' = tpdo_timers
                       /\ first_bus_down' = TRUE
                       /\ first_bus_reset' = first_bus_reset
                       /\ io' = TickProbes(if_stats) \cup {"net_start"}
                       /\ pc' = IF rn.raised THEN "exited" ELSE "wait"
                       /\ exc_escaped' = rn.raised
                  [] cls = "BUS_UP_NETWORK_UP" ->
                       /\ ~disc_raises /\ raises = "none" /\ nmt_ok
                       /\ UNCHANGED <<network, node, nmt_state, tpdo_timers>>
                       /\ first_bus_down' = TRUE
                       /\ first_bus_reset' = TRUE
                       /\ io' = TickProbes(if_stats)
                       /\ pc' = "wait"
                       /\ exc_escaped' = exc_escaped
    /\ UNCHANGED <<envVars, bus_shutdown, retval, stopVars, pdo, syncVars, sdoVars, auxVars>>

\* self._event.wait(1) returns, after a second or because the event was set
MonitorWait ==
    /\ pc = "wait"
    /\ pc' = "head"
    /\ io' = {}
    /\ UNCHANGED <<envVars, nodeVars, retval, exc_escaped, stopVars, pdo, syncVars, sdoVars, auxVars>>

\* run() after _monitor_can: _destroy_node() and return self._reset
RunReturn ==
    /\ pc = "exited"
    /\ node' = DestroyedNode(node)
    /\ nmt_state' = IF DestroyedNode(node) = "None" THEN "INITIALISING" ELSE nmt_state
    /\ tpdo_timers' = {}
    /\ retval' = reset
    /\ pc' = "returned"
    /\ io' = {}
    /\ UNCHANGED <<envVars, bus_state, network, first_bus_reset, first_bus_down,
                   bus_shutdown, exc_escaped, stopVars, pdo, syncVars, sdoVars, auxVars>>

\* Node.__del__, once run() has returned and the Node is dropped
Finalize ==
    /\ pc = "returned"
    /\ event' = TRUE
    /\ \E disc_raises \in BOOLEAN :
         /\ disc_raises => NetTruthy(network)
         /\ network' = IF NetTruthy(network) /\ ~disc_raises THEN "disconnected" ELSE network
    /\ io' = IF NetTruthy(network) THEN {"net_stop"} ELSE {}
    /\ bus_shutdown' = TRUE
    /\ pc' = "finalized"
    /\ UNCHANGED <<envVars, bus_state, node, nmt_state, first_bus_reset, first_bus_down,
                   tpdo_timers, retval, exc_escaped, reset, stop_log, pdo, syncVars, sdoVars, auxVars>>

----------------------------------------------------------------------------
(* The environment *)

IfStats == {"absent", "down", "up"}

\* the interface appears, disappears, goes up or down
IfChange ==
    /\ pc \notin {"returned", "finalized"}
    /\ \E s \in IfStats \ {if_stats} : if_stats' = s
    /\ UNCHANGED <<bus_type, euid_root, path_exists, nodeVars, runVars, stopVars, pdo,
                   syncVars, sdoVars, auxVars>>

\* a file named like the channel appears or disappears
PathChange ==
    /\ pc \notin {"returned", "finalized"}
    /\ path_exists' = ~path_exists
    /\ UNCHANGED <<bus_type, euid_root, if_stats, nodeVars, runVars, stopVars, pdo,
                   syncVars, sdoVars, auxVars>>

----------------------------------------------------------------------------
(* The object dictionary, Node.add_sdo_callbacks, Node._on_sdo_read,
   Node._on_sdo_write, Node._on_rpdo_update_od *)

\* a byte takes one of these values in the model
Bytes == {0, 170}

\* values of objects, callback arguments and callback returns
IntVal(n)   == [kind |-> "int", v |-> n]
BytesVal(b) == [kind |-> "bytes", v |-> b]
NoneVal     == [kind |-> "none", v |-> 0]

\* od.data_type of the objects whose raw data _on_sdo_write stores undecoded
BinaryTypes == {"DOMAIN", "OCTET_STRING"}

\* the objects of the dictionary: a subvariable of a record, a variable, and a
\* variable of type DOMAIN
OdObjects == {"rec.x", "count", "blob"}

\* self.od[index] and, for a record, self.od[index][subindex]
Obj(o) ==
    CASE o = "rec.x" -> [index |-> 8192, subindex |-> 1, is_var |-> FALSE,
                         index_name |-> "rec", name |-> "x", data_type |-> "UNSIGNED8"]
      [] o = "count" -> [index |-> 8193, subindex |-> 0, is_var |-> TRUE,
                         index_name |-> "count", name |-> "count",
                         data_type |-> "UNSIGNED16"]
      [] o = "blob"  -> [index |-> 8194, subindex |-> 0, is_var |-> TRUE,
                         index_name |-> "blob", name |-> "blob", data_type |-> "DOMAIN"]

\* the raw data an SDO download or an RPDO delivers for an object: the library
\* rejects data whose length differs from the length of a number type before it
\* calls the write callbacks
DataFor(o) ==
    CASE Obj(o).data_type = "UNSIGNED8"  -> {<<b>> : b \in Bytes}
      [] Obj(o).data_type = "UNSIGNED16" -> {<<170, 0>>, <<0, 170>>}
      [] OTHER                           -> {<<>>, <<170>>}

\* od.decode_raw(data) of an unsigned type: little endian
DecodeRaw(data_type, data) ==
    CASE data_type = "UNSIGNED8"  -> data[1]
      [] data_type = "UNSIGNED16" -> data[1] + 256 * data[2]

\* the value _on_sdo_write stores for the raw data
WrittenValue(o, data) ==
    IF Obj(o).data_type \in BinaryTypes THEN BytesVal(data)
    ELSE IntVal(DecodeRaw(Obj(o).data_type, data))

\* the key the handlers look a callback up with: "convert any ints to strs"
NamePair(o) ==
    IF Obj(o).is_var THEN <<Obj(o).name, "None">>
    ELSE <<Obj(o).index_name, Obj(o).name>>

\* the (index, subindex) pairs add_sdo_callbacks is called with: the name pairs of
\* the objects and one of an object the dictionary does not hold
CallbackArgs == {NamePair(o) : o \in OdObjects} \cup {<<"nope", "None">>}

SeenByCallback_Old(old, new) == old

\* the value the object holds while the write callback runs: _on_sdo_write sets
\* od.value before it makes the call
SeenByCallback(old, new) == new

\* _on_sdo_write(index, subindex, od, data) with values the dictionary, cbs the
\* keys of self._write_cbs and raises saying whether the callback raises
OnSdoWrite(o, data, values, cbs, raises) ==
    LET v      == WrittenValue(o, data)
        called == NamePair(o) \in cbs
    IN  [values |-> [values EXCEPT ![o] = v],
         calls  |-> IF called
                    THEN << [key |-> NamePair(o), arg |-> v,
                             seen |-> SeenByCallback(values[o], v)] >>
                    ELSE <<>>,
         exc    |-> IF called /\ raises THEN "CallbackError" ELSE "none"]

ReadFallsBack_Falsy(ret) == ret \in {NoneVal, IntVal(0), BytesVal(<<>>)}

\* _on_sdo_read uses the value of the dictionary: "if ret is None"
ReadFallsBack(ret) == ret = NoneVal

\* what a read callback returns
ReadReturns == {NoneVal, IntVal(0), IntVal(7), BytesVal(<<>>)}

\* _on_sdo_read(index, subindex, od) with cb_ret what the callback returns if called
OnSdoRead(o, values, cbs, cb_ret) ==
    LET called == NamePair(o) \in cbs
        ret    == IF called THEN cb_ret ELSE NoneVal
    IN  [called |-> called, sent |-> IF ReadFallsBack(ret) THEN values[o] ELSE ret]

\* the objects an RPDO can map
MappableObjects == {o \in OdObjects : Obj(o).data_type \notin BinaryTypes}

\* the mapping parameter of an RPDO: count is subindex 0, entries the subindices
\* 1 .. MaxMapEntries, "zero" for an entry that is 0. The entries up to count are
\* mapped objects, each object once; the entries above count hold anything.
RpdoMappings ==
    {m \in [count : 0 .. MaxMapEntries,
            entries : [1 .. MaxMapEntries -> MappableObjects \cup {"zero"}]] :
        /\ \A i \in 1 .. m.count : m.entries[i] # "zero"
        /\ \A i, k \in 1 .. MaxMapEntries :
              (i # k /\ m.entries[i] # "zero") => m.entries[i] # m.entries[k]}

\* the bytes a received RPDO holds for the entries of its mapping
RpdoData(m) ==
    {d \in [1 .. MaxMapEntries -> UNION {DataFor(o) : o \in MappableObjects}] :
        \A i \in 1 .. MaxMapEntries :
            IF m.entries[i] = "zero" THEN d[i] = <<0>> ELSE d[i] \in DataFor(m.entries[i])}

RECURSIVE RpdoWalk(_, _, _, _, _, _)
\* the loop of _on_rpdo_update_od from subindex i on: mapping.map holds the
\* variables of the entries 1 .. count, so mapping.map[i - 1] raises IndexError
\* above count; an exception of a write ends the loop
RpdoWalk(i, m, d, values, cbs, raising) ==
    IF i > MaxMapEntries THEN [values |-> values, calls |-> <<>>, exc |-> "none"]
    ELSE IF m.entries[i] = "zero" THEN [values |-> values, calls |-> <<>>, exc |-> "none"]
    ELSE IF i > m.count THEN [values |-> values, calls |-> <<>>, exc |-> "IndexError"]
    ELSE LET w == OnSdoWrite(m.entries[i], d[i], values, cbs,
                             NamePair(m.entries[i]) \in raising)
         IN  IF w.exc # "none" THEN w
             ELSE LET rest == RpdoWalk(i + 1, m, d, w.values, cbs, raising)
                  IN  [values |-> rest.values, calls |-> w.calls \o rest.calls,
                       exc |-> rest.exc]

\* od.encode_raw(value) of an unsigned type: little endian
EncodeRaw(data_type, value) ==
    CASE data_type = "UNSIGNED8"  -> <<value % 256>>
      [] data_type = "UNSIGNED16" -> <<value % 256, value \div 256>>

\* no _send_pdo call is in its loop
NoTx == [pc |-> "idle", i |-> 0, map |-> <<>>, data |-> <<>>]

\* the values the objects of the mapping map hold together in values, encoded
SnapshotOf(map, values) ==
    [i \in 1 .. Len(map) |-> EncodeRaw(Obj(map[i]).data_type, values[map[i]].v)]

\* od_seen after the dictionary has become values
SeenAfter(values) ==
    IF tx.pc = "idle" THEN od_seen ELSE od_seen \cup {SnapshotOf(tx.map, values)}

\* no handler has run
NoSdo == [op |-> "none", obj |-> "none", data |-> <<>>, before |-> NoneVal,
          called |-> FALSE, cb_ret |-> NoneVal, sent |-> NoneVal, calls |-> <<>>,
          exc |-> "none", map |-> [count |-> 0, entries |-> <<>>], rdata |-> <<>>]

\* add_sdo_callbacks(index, subindex, read_cb, write_cb): a request for an object
\* the dictionary does not hold is ignored
AddSdoCallbacks ==
    /\ sdo.op = "none"
    /\ \E key \in CallbackArgs, with_read \in BOOLEAN, with_write \in BOOLEAN :
         LET known == key \in {NamePair(o) : o \in OdObjects}
         IN  /\ with_read \/ with_write
             /\ read_cbs' = IF known /\ with_read THEN read_cbs \cup {key} ELSE read_cbs
             /\ write_cbs' = IF known /\ with_write THEN write_cbs \cup {key}
                             ELSE write_cbs
    /\ UNCHANGED <<envVars, nodeVars, runVars, stopVars, pdo, syncVars, od_value, sdo, auxVars>>

\* the SDO server of the local node handles a download: _on_sdo_write
SdoWrite ==
    /\ sdo.op = "none"
    /\ node = "LocalNode"
    /\ \E o \in OdObjects, raises \in BOOLEAN :
         \E data \in DataFor(o) :
            LET w == OnSdoWrite(o, data, od_value, write_cbs, raises)
            IN  /\ od_value' = w.values
                /\ od_seen' = SeenAfter(w.values)
                /\ sdo' = [NoSdo EXCEPT !.op = "write", !.obj = o, !.data = data,
                                        !.before = od_value[o], !.calls = w.calls,
                                        !.exc = w.exc]
    /\ UNCHANGED <<envVars, nodeVars, runVars, stopVars, pdo, syncVars, read_cbs,
                   write_cbs, tx, helpVars>>

\* the SDO server of the local node handles an upload: _on_sdo_read
SdoRead ==
    /\ sdo.op = "none"
    /\ node = "LocalNode"
    /\ \E o \in OdObjects, cb_ret \in ReadReturns :
         LET r == OnSdoRead(o, od_value, read_cbs, cb_ret)
         IN  sdo' = [NoSdo EXCEPT !.op = "read", !.obj = o, !.before = od_value[o],
                                  !.called = r.called,
                                  !.cb_ret = IF r.called THEN cb_ret ELSE NoneVal,
                                  !.sent = r.sent]
    /\ UNCHANGED <<envVars, nodeVars, runVars, stopVars, pdo, syncVars, od_value,
                   read_cbs, write_cbs, auxVars>>

\* an enabled RPDO is received: _on_rpdo_update_od(mapping)
RpdoReceived ==
    /\ sdo.op = "none"
    /\ node = "LocalNode"
    /\ network = "attached"
    /\ \E m \in RpdoMappings :
       \E raising \in SUBSET (write_cbs \cap {NamePair(m.entries[i]) :
                                  i \in {k \in 1 .. m.count : m.entries[k] # "zero"}}) :
         \E d \in RpdoData(m) :
            LET w == RpdoWalk(1, m, d, od_value, write_cbs, raising)
            IN  /\ od_value' = w.values
                /\ sdo' = [NoSdo EXCEPT !.op = "rpdo", !.map = m, !.rdata = d,
                                        !.calls = w.calls, !.exc = w.exc]
    /\ UNCHANGED <<envVars, nodeVars, runVars, stopVars, pdo, syncVars, read_cbs,
                   write_cbs, auxVars>>

\* the handler returns (or raises) to the library, which handles the next request:
\* the handlers are called by the one thread that reads the bus
SdoReturn ==
    /\ sdo.op # "none"
    /\ sdo' = NoSdo
    /\ UNCHANGED <<envVars, nodeVars, runVars, stopVars, pdo, syncVars, od_value,
                   read_cbs, write_cbs, auxVars>>

\* no od_write_bitfield or od_read_bitfield call has been made
NoBf == [pc |-> "idle", field |-> "none", x |-> 0, tmp |-> 0, stored |-> 0,
         read_from |-> 0, result |-> 0, exc |-> "none"]

\* App.__init__: no resource is registered, run has not been called
NoApp == [pc |-> "init", res |-> <<>>, started |-> <<>>, ended |-> <<>>,
          start_exc |-> "none", monitor_exc |-> FALSE, ret |-> -1]

\* App.setup has not loaded a dictionary
NoCob == [pc |-> "none"]

\* no od_write call has been made
NoOdw == [op |-> "none", obj |-> "none", value |-> NoneVal, before |-> NoneVal,
          after |-> NoneVal, result |-> "none"]

\* the dictionary as loaded, no callback registered
InitOd ==
    /\ od_value = [o \in OdObjects |->
                     IF Obj(o).data_type \in BinaryTypes THEN BytesVal(<<>>)
                     ELSE IntVal(0)]
    /\ read_cbs = {}
    /\ write_cbs = {}
    /\ sdo = NoSdo
    /\ tx = NoTx
    /\ od_seen = {}
    /\ bf = NoBf
    /\ odw = NoOdw

\* the App is constructed, setup has not run
InitApp ==
    /\ app = NoApp
    /\ cob = NoCob

----------------------------------------------------------------------------
(* The node after construction, and the supervisor's specification *)

NumSlots == 16

Slots == 0 .. (NumSlots - 1)

\* no send_tpdo, send_rpdo or send_emcy call has been made
NoPdo == [op |-> "none", n |-> 0, raise_exception |-> FALSE, result |-> "none",
          datalen |-> -1, tx_ok |-> FALSE, frame |-> <<>>, emcy |-> "none"]

\* Node.__init__
InitNode ==
    /\ bus_state = "BUS_DOWN"
    /\ node = "None"
    /\ nmt_state = "INITIALISING"
    /\ network = "None"
    /\ event = FALSE
    /\ reset = SOFT_RESET
    /\ first_bus_reset = FALSE
    /\ first_bus_down = TRUE
    /\ tpdo_timers = {}
    /\ syncs = 0
    /\ bus_shutdown = FALSE
    /\ pc = "idle"
    /\ retval = 0
    /\ exc_escaped = FALSE
    /\ stop_log = <<>>
    /\ io = {}
    /\ pdo = NoPdo
    /\ sync_calls = <<>>
    /\ sync_frames = <<>>
    /\ sync_exc = "none"
    /\ since_emit = [n \in Slots |-> -1]
    /\ last_gap = [n \in Slots |-> 0]

InitEnv ==
    /\ bus_type \in {"socketcan", "socketcand"}
    /\ euid_root \in BOOLEAN
    /\ if_stats \in IfStats
    /\ path_exists \in BOOLEAN

Init ==
    /\ InitEnv
    /\ InitNode
    /\ InitOd
    /\ InitApp
    /\ tt = [n \in Slots |-> 255]

Next ==
    \/ \E r \in NodeStop \cup {NoReset} : Stop(r)
    \/ MonitorEntry
    \/ MonitorHead
    \/ MonitorBody
    \/ MonitorWait
    \/ RunReturn
    \/ Finalize
    \/ IfChange
    \/ PathChange

Spec == Init /\ [][Next]_vars

\* the thread that calls run() keeps running: every call it makes returns or raises
FairSpec ==
    /\ Spec
    /\ WF_vars(MonitorEntry)
    /\ WF_vars(MonitorHead)
    /\ WF_vars(MonitorBody)
    /\ WF_vars(MonitorWait)
    /\ WF_vars(RunReturn)

----------------------------------------------------------------------------
(* Node.send_tpdo, Node.send_rpdo, Node._send_pdo, Node.send_emcy *)

\* send_tpdo and send_rpdo are called with numbers up to MaxPdoArg
MaxPdoArg == 17

RPDO_COMM == 5120    \* 0x1400
RPDO_MAP  == 5632    \* 0x1600
TPDO_COMM == 6144    \* 0x1800
TPDO_MAP  == 6656    \* 0x1A00

\* the length of a CAN frame's payload
PDO_MAX_LEN == 8

\* the indices of the PDO communication parameters the object dictionary holds;
\* self.od[i] raises KeyError for another i
CommIndices == {RPDO_COMM + n : n \in Slots} \cup {TPDO_COMM + n : n \in Slots}

\* the numbers send_tpdo and send_rpdo are called with: the code compares the
\* number with 1 and uses it as an offset into the object dictionary, so the model
\* draws 0, the first number, the last one the dictionary holds and those above
PdoArgs == {0, 1} \cup (NumSlots .. MaxPdoArg)

\* the encoded sizes, in bytes, of the objects a map entry can point to; 0 stands
\* for a map entry that is 0
MapSizes == {0, 4, 8}

\* the contents a mapping parameter can have: subindex 0 (the count) and the
\* sizes of the objects its entries point to
Mappings ==
    UNION {[count : 0 .. k, sizes : [1 .. k -> MapSizes]] : k \in 0 .. MaxMapEntries}

RECURSIVE PdoDataLenFrom(_, _)
\* the loop of _send_pdo from entry i on: len(data) of the entries i .. count, up to
\* the first entry that is 0
PdoDataLenFrom(m, i) ==
    IF i > m.count \/ i > Len(m.sizes) THEN 0
    ELSE IF m.sizes[i] = 0 THEN 0
    ELSE m.sizes[i] + PdoDataLenFrom(m, i + 1)

\* len(data) after the loop of _send_pdo
PdoDataLen(m) == PdoDataLenFrom(m, 1)

\* the argument check of send_tpdo and of send_rpdo
PdoNumberInvalid(n) == n < 1

RaiseOnNetworkDown_Always(raise_exception) == TRUE

\* what _send_pdo and send_emcy do when self._network is None
RaiseOnNetworkDown(raise_exception) == raise_exception

\* the link and NMT check of _send_pdo
PdoSendBlocked(stats, nd, nmt) ==
    \/ stats = "absent"
    \/ nd = "None"
    \/ (stats = "up" /\ nmt # "OPERATIONAL")

PdoLenExceeded_AtEight(len) == len >= PDO_MAX_LEN

\* the length check of _send_pdo
PdoLenExceeded(len) == len > PDO_MAX_LEN

\* _send_pdo(comm_index, map_index, raise_exception) with the mapping parameter m
\* at map_index; tx_ok: the transport does not raise
SendPdo(comm_index, m, raise_exception, tx_ok) ==
    LET quiet == [result |-> "returned", datalen |-> -1, tx_ok |-> FALSE,
                  frame |-> <<>>, emcy |-> "none"]
        len   == PdoDataLen(m)
    IN  IF network = "None"
        THEN IF RaiseOnNetworkDown(raise_exception)
             THEN [quiet EXCEPT !.result = "NetworkError"]
             ELSE quiet
        ELSE IF PdoSendBlocked(if_stats, node, nmt_state) THEN quiet
        ELSE IF comm_index \notin CommIndices THEN [quiet EXCEPT !.result = "KeyError"]
        ELSE IF PdoLenExceeded(len)
        THEN [quiet EXCEPT !.datalen = len, !.tx_ok = tx_ok,
                           !.emcy = IF EmcyEmitted(network, node, tx_ok)
                                    THEN "PROTOCOL_PDO_LEN_EXCEEDED" ELSE "none"]
        ELSE [quiet EXCEPT !.datalen = len, !.tx_ok = tx_ok,
                           !.frame = IF tx_ok THEN <<comm_index, len>> ELSE <<>>]

\* send_tpdo(n, raise_exception) or send_rpdo(n, raise_exception): comm is the
\* index of the first communication parameter of that direction
SendNumberedPdo(op, comm, n, raise_exception, m, tx_ok) ==
    LET out == IF PdoNumberInvalid(n)
               THEN [result |-> "ValueError", datalen |-> -1, tx_ok |-> FALSE,
                     frame |-> <<>>, emcy |-> "none"]
               ELSE SendPdo(comm + (n - 1), m, raise_exception, tx_ok)
    IN  [op |-> op, n |-> n, raise_exception |-> raise_exception,
         result |-> out.result, datalen |-> out.datalen, tx_ok |-> out.tx_ok,
         frame |-> out.frame, emcy |-> out.emcy]

\* The calls are made by a thread of their own (a timer's, a resource's); pdo holds
\* the call and its outcome until SendReturn hands the outcome to the caller.
\* tx_ok says whether network.send_message (or emcy.send) returned rather than
\* raised: _send_pdo probes the interface before it sends, not while it sends, so
\* the outcome of the send is not determined by what the probe saw.
SendTpdo ==
    /\ pc # "finalized"
    /\ pdo.op = "none"
    /\ \E n \in PdoArgs, raise_exception \in BOOLEAN, m \in Mappings,
          tx_ok \in BOOLEAN :
         pdo' = SendNumberedPdo("send_tpdo", TPDO_COMM, n, raise_exception, m, tx_ok)
    /\ UNCHANGED <<envVars, nodeVars, runVars, stopVars, syncVars, sdoVars, auxVars>>

SendRpdo ==
    /\ pc # "finalized"
    /\ pdo.op = "none"
    /\ \E n \in PdoArgs, raise_exception \in BOOLEAN, m \in Mappings,
          tx_ok \in BOOLEAN :
         pdo' = SendNumberedPdo("send_rpdo", RPDO_COMM, n, raise_exception, m, tx_ok)
    /\ UNCHANGED <<envVars, nodeVars, runVars, stopVars, syncVars, sdoVars, auxVars>>

\* send_emcy(code, data, raise_exception) called by a resource
SendEmcy ==
    /\ pc # "finalized"
    /\ pdo.op = "none"
    /\ \E raise_exception \in BOOLEAN, tx_ok \in BOOLEAN :
         pdo' = [op |-> "send_emcy", n |-> 0, raise_exception |-> raise_exception,
                 result |-> IF network = "None" /\ RaiseOnNetworkDown(raise_exception)
                            THEN "NetworkError" ELSE "returned",
                 datalen |-> -1,
                 tx_ok |-> network # "None" /\ tx_ok,
                 frame |-> <<>>,
                 emcy |-> IF EmcyEmitted(network, node, tx_ok) THEN "USER" ELSE "none"]
    /\ UNCHANGED <<envVars, nodeVars, runVars, stopVars, syncVars, sdoVars, auxVars>>

\* the call returns (or raises) to its caller, which may then make the next one
SendReturn ==
    /\ pdo.op # "none"
    /\ pdo' = NoPdo
    /\ UNCHANGED <<envVars, nodeVars, runVars, stopVars, syncVars, sdoVars, auxVars>>

\* an NMT command of the network's master changes the state of the local node
NmtCommand ==
    /\ node = "LocalNode"
    /\ network = "attached"
    /\ \E s \in {"PRE-OPERATIONAL", "OPERATIONAL", "STOPPED"} \ {nmt_state} :
         nmt_state' = s
    /\ UNCHANGED <<envVars, bus_state, node, network, first_bus_reset, first_bus_down,
                   tpdo_timers, bus_shutdown, runVars, stopVars, pdo, syncVars, sdoVars, auxVars>>

\* the node while nobody stops it: the supervisor, the environment and the senders
NextPdo ==
    \/ MonitorEntry
    \/ MonitorHead
    \/ MonitorBody
    \/ MonitorWait
    \/ RunReturn
    \/ IfChange
    \/ PathChange
    \/ NmtCommand
    \/ SendTpdo
    \/ SendRpdo
    \/ SendEmcy
    \/ SendReturn

SpecPdo == Init /\ [][NextPdo]_vars

----------------------------------------------------------------------------
(* Node._on_sync *)

\* at most this many slots have a transmission type other than TT_ASYNC
MaxVaried == 2

SYNC_WRAP == 241    \* the value of self._syncs that is replaced by 1
TT_ASYNC  == 255    \* 0xFF, the transmission type of a TPDO that no SYNC sends

\* the transmission types the slots are configured with
TTValues == {0, 1, 3, 7, 240, TT_ASYNC}

\* the slots whose transmission type varies
VariedSlots == {0, 1, 2, NumSlots - 1}

\* the configurations of OD[0x1800 + n][2] for n in 0..15
TTConfigs ==
    LET sets == {V \in SUBSET VariedSlots : Cardinality(V) <= MaxVaried}
        some == UNION {[V -> TTValues] : V \in sets}
    IN  {[n \in Slots |-> IF n \in DOMAIN f THEN f[n] ELSE TT_ASYNC] : f \in some}

NextSyncs_WrapZero(s) == (s + 1) % SYNC_WRAP

\* self._syncs after a SYNC frame
NextSyncs(s) == IF s + 1 = SYNC_WRAP THEN 1 ELSE s + 1

RECURSIVE SyncWalk_SkipZero(_, _, _)
SyncWalk_SkipZero(i, s, t) ==
    IF i = NumSlots THEN [calls |-> <<>>, frames |-> <<>>, exc |-> "none"]
    ELSE IF t[i] # 0 /\ s % t[i] = 0
    THEN IF PdoNumberInvalid(i)
         THEN [calls |-> <<i>>, frames |-> <<>>, exc |-> "ValueError"]
         ELSE LET rest == SyncWalk_SkipZero(i + 1, s, t)
              IN  [calls  |-> <<i>> \o rest.calls,
                   frames |-> <<TPDO_COMM + (i - 1)>> \o rest.frames,
                   exc    |-> rest.exc]
    ELSE SyncWalk_SkipZero(i + 1, s, t)

RECURSIVE SyncWalk(_, _, _)
\* the loop of _on_sync from slot i on, with s the counter and t the transmission
\* types: the numbers send_tpdo is called with, the communication parameters
\* _send_pdo is called with, and the exception that ends the loop early, if any
\* (s % 0 raises ZeroDivisionError, send_tpdo raises ValueError)
SyncWalk(i, s, t) ==
    IF i = NumSlots THEN [calls |-> <<>>, frames |-> <<>>, exc |-> "none"]
    ELSE IF t[i] = 0
    THEN [calls |-> <<>>, frames |-> <<>>, exc |-> "ZeroDivisionError"]
    ELSE IF s % t[i] = 0
    THEN IF PdoNumberInvalid(i)
         THEN [calls |-> <<i>>, frames |-> <<>>, exc |-> "ValueError"]
         ELSE LET rest == SyncWalk(i + 1, s, t)
              IN  [calls  |-> <<i>> \o rest.calls,
                   frames |-> <<TPDO_COMM + (i - 1)>> \o rest.frames,
                   exc    |-> rest.exc]
    ELSE SyncWalk(i + 1, s, t)

\* the elements of a sequence
Range(q) == {q[k] : k \in 1 .. Len(q)}

\* A SYNC frame (COB-ID 0x80) arrives and the network calls _on_sync. Whatever the
\* handler raises is logged by the network's listener, and the next frame is
\* handled like this one.
OnSync ==
    /\ network = "attached"
    /\ LET s == NextSyncs(syncs)
           w == SyncWalk(0, s, tt)
           sent(n) == (TPDO_COMM + n) \in Range(w.frames)
       IN  /\ syncs' = s
           /\ sync_calls' = w.calls
           /\ sync_frames' = w.frames
           /\ sync_exc' = w.exc
           /\ since_emit' = [n \in Slots |->
                                IF sent(n) THEN 0
                                ELSE IF since_emit[n] < 0 THEN -1
                                ELSE since_emit[n] + 1]
           /\ last_gap' = [n \in Slots |->
                              IF sent(n) /\ since_emit[n] >= 0 THEN since_emit[n] + 1
                              ELSE last_gap[n]]
    /\ UNCHANGED <<envVars, nodeVars, runVars, stopVars, pdo, tt, sdoVars, auxVars>>

\* the node once the supervisor has started the network and sees it up
NetworkUp ==
    /\ bus_type = "socketcan"
    /\ euid_root = TRUE
    /\ if_stats = "up"
    /\ path_exists = FALSE
    /\ bus_state = "BUS_UP_NETWORK_UP"
    /\ node = "LocalNode"
    /\ nmt_state = "OPERATIONAL"
    /\ network = "attached"
    /\ event = FALSE
    /\ reset = SOFT_RESET
    /\ first_bus_reset = TRUE
    /\ first_bus_down = TRUE
    /\ tpdo_timers = {}
    /\ bus_shutdown = FALSE
    /\ pc = "wait"
    /\ retval = 0
    /\ exc_escaped = FALSE
    /\ stop_log = <<>>
    /\ io = TickProbes("up")
    /\ pdo = NoPdo

\* no SYNC frame has been received yet
InitSync ==
    /\ NetworkUp
    /\ tt \in TTConfigs
    /\ syncs = 0
    /\ sync_calls = <<>>
    /\ sync_frames = <<>>
    /\ sync_exc = "none"
    /\ since_emit = [n \in Slots |-> -1]
    /\ last_gap = [n \in Slots |-> 0]
    /\ InitOd
    /\ InitApp

NextSync == OnSync

SpecSync == InitSync /\ [][NextSync]_vars

----------------------------------------------------------------------------
(* The SDO server and the RPDOs of a node whose network is up *)

InitSdo ==
    /\ NetworkUp
    /\ tt = [n \in Slots |-> TT_ASYNC]
    /\ syncs = 0
    /\ sync_calls = <<>>
    /\ sync_frames = <<>>
    /\ sync_exc = "none"
    /\ since_emit = [n \in Slots |-> -1]
    /\ last_gap = [n \in Slots |-> 0]
    /\ InitOd
    /\ InitApp

NextSdo ==
    \/ AddSdoCallbacks
    \/ SdoWrite
    \/ SdoRead
    \/ RpdoReceived
    \/ SdoReturn

SpecSdo == InitSdo /\ [][NextSdo]_vars

----------------------------------------------------------------------------
(* Node._send_pdo, statement by statement, while the SDO server writes the
   dictionary: the call is made by the thread of a timer or of a
   resource, the handlers are called by the thread that reads the bus, and
   neither takes a lock *)

\* the mappings of the TPDO that is sent: one or two mapped objects
TpdoMappings ==
    {<<o>> : o \in MappableObjects}
        \cup {m \in MappableObjects \X MappableObjects : m[1] # m[2]}

\* send_tpdo is called and _send_pdo passes its checks and reaches its loop
PdoSendBegin ==
    /\ tx.pc = "idle"
    /\ network # "None"
    /\ ~PdoSendBlocked(if_stats, node, nmt_state)
    /\ \E m \in TpdoMappings :
         /\ tx' = [pc |-> "loop", i |-> 1, map |-> m, data |-> <<>>]
         /\ od_seen' = {SnapshotOf(m, od_value)}
    /\ UNCHANGED <<envVars, nodeVars, runVars, stopVars, pdo, syncVars, sdoVars, helpVars>>

\* one iteration of the loop: the value of the next mapped object is read through
\* the SDO server (value = self._node.sdo[index].phys) and encoded; self._node
\* is read again here, and None has no attribute sdo
PdoSendRead ==
    /\ tx.pc = "loop"
    /\ tx.i <= Len(tx.map)
    /\ IF node = "None"
       THEN tx' = [tx EXCEPT !.pc = "raised"]
       ELSE \E cb_ret \in ReadReturns :
              LET o == tx.map[tx.i]
                  r == OnSdoRead(o, od_value, read_cbs, cb_ret)
              IN  /\ r.sent.kind = "int"
                  /\ tx' = [tx EXCEPT !.i = tx.i + 1,
                                      !.data = Append(tx.data,
                                                      EncodeRaw(Obj(o).data_type,
                                                                r.sent.v))]
    /\ UNCHANGED <<envVars, nodeVars, runVars, stopVars, pdo, syncVars, sdoVars, od_seen,
                   helpVars>>

\* after the loop: the data is handed to self._network.send_message
PdoSendTransmit ==
    /\ tx.pc = "loop"
    /\ tx.i = Len(tx.map) + 1
    /\ tx' = [tx EXCEPT !.pc = "sent"]
    /\ UNCHANGED <<envVars, nodeVars, runVars, stopVars, pdo, syncVars, sdoVars, od_seen,
                   helpVars>>

\* _send_pdo returns, or the AttributeError leaves it
PdoSendReturn ==
    /\ tx.pc \in {"sent", "raised"}
    /\ tx' = NoTx
    /\ od_seen' = {}
    /\ UNCHANGED <<envVars, nodeVars, runVars, stopVars, pdo, syncVars, sdoVars, helpVars>>

NextSnap ==
    \/ PdoSendBegin
    \/ PdoSendRead
    \/ PdoSendTransmit
    \/ PdoSendReturn
    \/ SdoWrite
    \/ SdoReturn

SpecSnap == InitSdo /\ [][NextSnap]_vars

\* a timer or resource thread sends TPDOs while the supervisor ticks and the
\* interface goes down and comes up
NextTeardown ==
    \/ PdoSendBegin
    \/ PdoSendRead
    \/ PdoSendTransmit
    \/ PdoSendReturn
    \/ MonitorHead
    \/ MonitorBody
    \/ MonitorWait
    \/ IfChange

SpecTeardown == InitSdo /\ [][NextTeardown]_vars

----------------------------------------------------------------------------
(* Node.od_write, Node.od_write_bitfield, Node.od_read_bitfield: called by the
   thread of a resource, while the SDO server writes the dictionary *)

RECURSIVE BitAnd(_, _)
\* a & b of Python, for a, b >= 0
BitAnd(a, b) ==
    IF a = 0 \/ b = 0 THEN 0
    ELSE (a % 2) * (b % 2) + 2 * BitAnd(a \div 2, b \div 2)

RECURSIVE BitOr(_, _)
\* a | b of Python, for a, b >= 0
BitOr(a, b) ==
    IF a = 0 THEN b
    ELSE IF b = 0 THEN a
    ELSE (IF a % 2 = 1 \/ b % 2 = 1 THEN 1 ELSE 0) + 2 * BitOr(a \div 2, b \div 2)

RECURSIVE BitXor(_, _)
\* a ^ b of Python, for a, b >= 0
BitXor(a, b) ==
    IF a = 0 THEN b
    ELSE IF b = 0 THEN a
    ELSE (IF a % 2 # b % 2 THEN 1 ELSE 0) + 2 * BitXor(a \div 2, b \div 2)

\* the bit fields of the object rec.x
FieldNames == {"b0", "lo", "hi"}

\* obj.bit_definitions[field]: the list of the bit positions of the field
FieldBits(field) ==
    CASE field = "b0" -> <<0>>
      [] field = "lo" -> <<0, 1>>
      [] field = "hi" -> <<2, 3>>

\* min(bits)
MinBit(bits) == CHOOSE b \in Range(bits) : \A c \in Range(bits) : b <= c

\* "for i in bits: ... bits[i]" raises IndexError: the loops index the list with
\* its own elements
BitsIndexError(bits) == \E k \in 1 .. Len(bits) : bits[k] >= Len(bits)

RECURSIVE BitsMaskFrom(_, _)
\* the loop of od_write_bitfield from the k-th element of bits on
BitsMaskFrom(bits, k) ==
    IF k > Len(bits) THEN 0
    ELSE BitOr(2 ^ bits[bits[k] + 1], BitsMaskFrom(bits, k + 1))

\* mask after the loop of od_write_bitfield
BitsMask(bits) == BitsMaskFrom(bits, 1)

\* new_value ^= mask
ClearField(v, mask) == BitXor(v, mask)

\* the value od_write_bitfield stores for the value v it read
WriteBitfieldValue(v, bits, x) ==
    BitOr(ClearField(v, BitsMask(bits)), x * 2 ^ MinBit(bits))

RECURSIVE ReadBitfieldFrom(_, _, _)
\* the loop of od_read_bitfield from the k-th element of bits on
ReadBitfieldFrom(v, bits, k) ==
    IF k > Len(bits) THEN 0
    ELSE LET b == bits[bits[k] + 1]
         IN  BitOr(BitAnd(v, 2 ^ b) \div 2 ^ b, ReadBitfieldFrom(v, bits, k + 1))

\* what od_read_bitfield returns for the value v
ReadBitfieldValue(v, bits) == ReadBitfieldFrom(v, bits, 1)

\* the values od_write_bitfield is called with
BitfieldInputs == 0 .. 3

\* od_write_bitfield up to "new_value = obj.value": the mask is built, then the
\* value of the object is read
OdWriteBitfieldBegin ==
    /\ bf.pc = "idle"
    /\ od_value["rec.x"].kind = "int"
    /\ \E field \in FieldNames, x \in BitfieldInputs :
         bf' = IF BitsIndexError(FieldBits(field))
               THEN [NoBf EXCEPT !.pc = "raised", !.field = field, !.x = x,
                                 !.exc = "IndexError"]
               ELSE [NoBf EXCEPT !.pc = "read", !.field = field, !.x = x,
                                 !.tmp = od_value["rec.x"].v]
    /\ UNCHANGED <<envVars, nodeVars, runVars, stopVars, pdo, syncVars, sdoVars, snapVars,
                   odw, appVars>>

\* od_write_bitfield from there on: the new value is computed and stored
OdWriteBitfieldStore ==
    /\ bf.pc = "read"
    /\ LET v == IntVal(WriteBitfieldValue(bf.tmp, FieldBits(bf.field), bf.x))
       IN  /\ od_value' = [od_value EXCEPT !["rec.x"] = v]
           /\ od_seen' = SeenAfter([od_value EXCEPT !["rec.x"] = v])
           /\ bf' = [bf EXCEPT !.pc = "stored", !.stored = v.v]
    /\ UNCHANGED <<envVars, nodeVars, runVars, stopVars, pdo, syncVars, read_cbs,
                   write_cbs, sdo, tx, odw, appVars>>

\* od_read_bitfield of the field that was written
OdReadBitfield ==
    /\ bf.pc = "stored"
    /\ od_value["rec.x"].kind = "int"
    /\ bf' = [bf EXCEPT !.pc = "read_back",
                        !.read_from = od_value["rec.x"].v,
                        !.result = ReadBitfieldValue(od_value["rec.x"].v, FieldBits(bf.field))]
    /\ UNCHANGED <<envVars, nodeVars, runVars, stopVars, pdo, syncVars, sdoVars, snapVars,
                   odw, appVars>>

\* the call returns or raises to the resource
OdBitfieldReturn ==
    /\ bf.pc \in {"raised", "stored", "read_back"}
    /\ bf' = NoBf
    /\ UNCHANGED <<envVars, nodeVars, runVars, stopVars, pdo, syncVars, sdoVars, snapVars,
                   odw, appVars>>

\* obj.min and obj.max of the numeric objects
ObjMin(o) == 0
ObjMax(o) == IF o = "rec.x" THEN 100 ELSE 1000

\* the data types of INTEGER_TYPES that the objects of the model have
IntegerTypes == {"UNSIGNED8", "UNSIGNED16"}

FloatVal(n) == [kind |-> "float", v |-> n]
StrVal      == [kind |-> "str", v |-> 0]

\* the values od_write is called with: ints, floats (n.0) and a str
OdWriteValues ==
    {IntVal(n) : n \in {50, 200, 2000}} \cup {FloatVal(n) : n \in {50, 2000}} \cup {StrVal}

\* od_write raises ValueError
OdWriteRejects(o, value) == Obj(o).data_type \in IntegerTypes /\ value.kind = "int"

\* od_write(index, subindex, value)
OdWrite ==
    /\ odw.op = "none"
    /\ \E o \in MappableObjects, value \in OdWriteValues :
         LET rejected == OdWriteRejects(o, value)
             values   == IF rejected THEN od_value ELSE [od_value EXCEPT ![o] = value]
         IN  /\ od_value' = values
             /\ od_seen' = SeenAfter(values)
             /\ odw' = [op |-> "od_write", obj |-> o, value |-> value,
                        before |-> od_value[o], after |-> values[o],
                        result |-> IF rejected THEN "ValueError" ELSE "ok"]
    /\ UNCHANGED <<envVars, nodeVars, runVars, stopVars, pdo, syncVars, read_cbs,
                   write_cbs, sdo, tx, bf, appVars>>

\* od_write returns or raises to the resource
OdWriteReturn ==
    /\ odw.op # "none"
    /\ odw' = NoOdw
    /\ UNCHANGED <<envVars, nodeVars, runVars, stopVars, pdo, syncVars, sdoVars, snapVars,
                   bf, appVars>>

\* a resource uses the bit fields while the SDO server handles downloads
NextBitfield ==
    \/ OdWriteBitfieldBegin
    \/ OdWriteBitfieldStore
    \/ OdReadBitfield
    \/ OdBitfieldReturn
    \/ SdoWrite
    \/ SdoReturn

SpecBitfield == InitSdo /\ [][NextBitfield]_vars

\* a resource writes objects while the SDO server handles downloads
NextOdWrite ==
    \/ OdWrite
    \/ OdWriteReturn
    \/ SdoWrite
    \/ SdoReturn

SpecOdWrite == InitSdo /\ [][NextOdWrite]_vars

----------------------------------------------------------------------------
(* App.setup: the COB-IDs of the PDOs *)

\* len(self._node.rpdo), len(self._node.tpdo)
PDO_SLOTS == 16
PdoSlots == 0 .. PDO_SLOTS - 1

RPDO_BASE == 512     \* 0x200
TPDO_BASE == 384     \* 0x180

\* default_rpdos, default_tpdos: base is 0x200 or 0x180
ReservedDefaults(base, node_id) == {base + 256 * k + node_id : k \in 0 .. 3}

RewrittenCobId_NoDiv(base, node_id, i) == base + 256 * (i % 4) + node_id

\* 0x200 + 0x100 * (i % 4) + self._node_id + i // 4, and the same with 0x180
RewrittenCobId(base, node_id, i) == base + 256 * (i % 4) + node_id + (i \div 4)

\* the value setup gives subindex 1 of the i-th communication record
SetupCobId(base, node_id, i, default) ==
    IF BitAnd(default, 4095) \in ReservedDefaults(base, node_id)
    THEN RewrittenCobId(base, node_id, i)
    ELSE default

\* the node ids the dictionary is loaded with
NodeIds == {1, 16, 127}

\* bit 30 of a COB-ID: no RTR is allowed on the PDO
COB_NO_RTR == 2 ^ 30

\* the defaults of a configuration that defines four COB-IDs and repeats them,
\* all with or all without bit 30
FourDefaults(base, node_id, flag) ==
    [i \in PdoSlots |-> flag + base + 256 * (i % 4) + node_id]

\* defaults that are none of the four: 0, the flag alone, the next COB-ID
CustomDefaults(base, node_id) == {0, COB_NO_RTR, base + node_id + 1}

\* the defaults of one kind: the four defaults
PlainConfigs(base, node_id) ==
    {FourDefaults(base, node_id, flag) : flag \in {0, COB_NO_RTR}}

\* the four defaults, and one record with a COB-ID of its own
CustomConfigs(base, node_id) ==
    {[f EXCEPT ![c] = v] : f \in PlainConfigs(base, node_id), c \in PdoSlots,
                           v \in CustomDefaults(base, node_id)}

\* the default COB-IDs of the RPDOs and of the TPDOs: at most one record of the
\* 32 has a COB-ID of its own
DefaultConfigs(node_id) ==
    LET plain_r == PlainConfigs(RPDO_BASE, node_id)
        plain_t == PlainConfigs(TPDO_BASE, node_id)
    IN  (plain_r \X plain_t)
        \cup (CustomConfigs(RPDO_BASE, node_id) \X plain_t)
        \cup (plain_r \X CustomConfigs(TPDO_BASE, node_id))

\* the dictionaries setup loads
LoadedConfigs ==
    UNION {{[pc |-> "loaded", node_id |-> n, rdef |-> d[1], tdef |-> d[2],
             rpdo |-> d[1], tpdo |-> d[2]] : d \in DefaultConfigs(n)} : n \in NodeIds}

\* App.setup(eds, bus, node_id): "fix COB-IDs for invaild PDOs"
AppSetup ==
    /\ cob.pc = "loaded"
    /\ cob' = [cob EXCEPT
                 !.pc = "setup",
                 !.rpdo = [i \in PdoSlots |->
                             SetupCobId(RPDO_BASE, cob.node_id, i, cob.rdef[i])],
                 !.tpdo = [i \in PdoSlots |->
                             SetupCobId(TPDO_BASE, cob.node_id, i, cob.tdef[i])]]
    /\ UNCHANGED <<envVars, nodeVars, runVars, stopVars, pdo, syncVars, sdoVars, snapVars,
                   bf, odw, app>>

\* setup is called on the constructed App, before run
InitSetup ==
    /\ bus_type = "socketcan"
    /\ euid_root = TRUE
    /\ if_stats = "up"
    /\ path_exists = TRUE
    /\ InitNode
    /\ InitOd
    /\ tt = [n \in Slots |-> 255]
    /\ app = NoApp
    /\ cob \in LoadedConfigs

NextSetup == AppSetup

SpecSetup == InitSetup /\ [][NextSetup]_vars

----------------------------------------------------------------------------
(* App.add_resource and App.run *)

\* the resource classes an application registers
Resources == {"r1", "r2", "r3"}

\* add_resource(resource, args)
AddResource ==
    /\ app.pc = "init"
    /\ Len(app.res) < MaxResources
    /\ \E r \in Resources \ Range(app.res) :
         app' = [app EXCEPT !.res = Append(@, r)]
    /\ UNCHANGED <<envVars, nodeVars, runVars, stopVars, pdo, syncVars, sdoVars, snapVars,
                   bf, odw, cob>>

\* run() up to the first loop
AppRunBegin ==
    /\ app.pc = "init"
    /\ app' = [app EXCEPT !.pc = "starting"]
    /\ UNCHANGED <<envVars, nodeVars, runVars, stopVars, pdo, syncVars, sdoVars, snapVars,
                   bf, odw, cob>>

\* one pass of "for resource, args in self._res": res.start(self._node, args)
\* returns, or raises: the call is in no try block and the exception leaves run
AppStartResource ==
    /\ app.pc = "starting"
    /\ Len(app.started) < Len(app.res)
    /\ \E raises \in BOOLEAN :
         LET r == app.res[Len(app.started) + 1]
         IN  app' = [app EXCEPT !.started = Append(@, r),
                                !.start_exc = IF raises THEN r ELSE "none",
                                !.pc = IF raises THEN "raised" ELSE @]
    /\ UNCHANGED <<envVars, nodeVars, runVars, stopVars, pdo, syncVars, sdoVars, snapVars,
                   bf, odw, cob>>

\* the timer loops are started; _monitor_can() returns, or raises and is logged
AppMonitor ==
    /\ app.pc = "starting"
    /\ Len(app.started) = Len(app.res)
    /\ \E raised \in BOOLEAN :
         app' = [app EXCEPT !.pc = "ending", !.monitor_exc = raised]
    /\ UNCHANGED <<envVars, nodeVars, runVars, stopVars, pdo, syncVars, sdoVars, snapVars,
                   bf, odw, cob>>

\* one pass of "for res in resources": res.end()
AppEndResource ==
    /\ app.pc = "ending"
    /\ Len(app.ended) < Len(app.started)
    /\ app' = [app EXCEPT !.ended = Append(@, app.started[Len(app.ended) + 1])]
    /\ UNCHANGED <<envVars, nodeVars, runVars, stopVars, pdo, syncVars, sdoVars, snapVars,
                   bf, odw, cob>>

\* the timer loops are stopped, run returns 0
AppRunReturn ==
    /\ app.pc = "ending"
    /\ Len(app.ended) = Len(app.started)
    /\ app' = [app EXCEPT !.pc = "done", !.ret = 0]
    /\ UNCHANGED <<envVars, nodeVars, runVars, stopVars, pdo, syncVars, sdoVars, snapVars,
                   bf, odw, cob>>

NextRun ==
    \/ AddResource
    \/ AppRunBegin
    \/ AppStartResource
    \/ AppMonitor
    \/ AppEndResource
    \/ AppRunReturn

SpecRun == Init /\ [][NextRun]_vars

----------------------------------------------------------------------------
(* The timed TPDOs: Node._tpdo_timers, Node._send_timer_tpdos *)

TT_EVENT_MANUFACTURER == 254    \* 0xFE

\* OD[0x1800 + n][5], the event timer of slot n in milliseconds: the first TPDO is
\* configured as a timed one, the others have no event timer
EventTime == [n \in Slots |-> IF n = 0 THEN 1000 ELSE 0]

\* the slots configured as timed TPDOs
TimedSlots ==
    {n \in Slots : tt[n] \in {TT_EVENT_MANUFACTURER, TT_ASYNC} /\ EventTime[n] > 0}

----------------------------------------------------------------------------
(* Claims about run(), stop() and the supervisor loop *)

RECURSIVE LastGiven(_)
\* the disposition of the latest stop() call that gave one, SOFT_RESET if none did
LastGiven(log) ==
    IF log = <<>> THEN SOFT_RESET
    ELSE IF log[Len(log)] # NoReset THEN log[Len(log)]
    ELSE LastGiven(SubSeq(log, 1, Len(log) - 1))

\* C1: run() returns the disposition passed to the most recent stop(reset) call
\* that gave a non-null reset; a stop() without a disposition leaves it unchanged;
\* if none was ever given run() returns SOFT_RESET (1).
C1_RunReturnsLastDisposition ==
    pc \in {"returned", "finalized"} => retval = LastGiven(stop_log)

\* stop(FACTORY_RESET), then stop() without a disposition: run() has returned 3
C1_Witness ==
    /\ pc = "returned"
    /\ stop_log = <<FACTORY_RESET, NoReset>>
    /\ retval = 3

C3_StopTerminatesRun ==
    /\ event ~> (pc \in {"returned", "finalized"})
    /\ [][(event /\ pc = "head" /\ pc' # pc) => pc' = "exited"]_vars

\* run() has returned after a stop() that found the supervisor in BUS_UP_NETWORK_UP
C3_Witness ==
    /\ event
    /\ pc = "returned"
    /\ ~exc_escaped
    /\ bus_state = "BUS_UP_NETWORK_UP"

\* the steps of _monitor_can
MonitorPcs == {"idle", "head", "body", "wait"}

\* C4, as stated: once the stop event is set, _monitor_can does no further I/O (no
\* probe, no link reset, no network (re)start, no EMCY), also when stop() was
\* called before run() was entered.
C4_NoIoAfterStop ==
    [][(event /\ pc \in MonitorPcs /\ pc' # pc) => io' = {}]_vars

\* C4, amended: once the loop condition of _monitor_can is evaluated with the stop
\* event set, the loop is left and neither it nor the rest of run() does any I/O.
\* (The tick in progress when the event is set still does its I/O, and so does the
\* code of _monitor_can before the loop when stop() was called before run().)
C4_NoIoOnceStopObserved ==
    [][(event /\ pc \in {"head", "exited"} /\ pc' # pc)
          => (pc' \in {"exited", "returned"} /\ io' = {})]_vars

\* the loop was left on a stop() with the network attached, and without I/O
C4_Witness ==
    /\ event
    /\ pc = "exited"
    /\ ~exc_escaped
    /\ network = "attached"
    /\ io = {}

----------------------------------------------------------------------------
(* Claims about send_tpdo, send_rpdo and send_emcy *)

PdoOps == {"send_tpdo", "send_rpdo"}

\* a call is made in this step
PdoCalled == pdo.op = "none" /\ pdo'.op # "none"

\* the communication parameter of the PDO a call names
PdoCommIndex(p) == (IF p.op = "send_tpdo" THEN TPDO_COMM ELSE RPDO_COMM) + (p.n - 1)

\* C5, as stated: send_tpdo(n) and send_rpdo(n) fail with an invalid-argument error
\* for every n outside 1..16 (n = 0, n = 17), whatever the network state, and with
\* no such error for n in 1..16.
C5_PdoNumberChecked ==
    pdo.op \in PdoOps => (pdo.n \notin 1 .. 16 <=> pdo.result = "ValueError")

\* C6: while self._network is None, send_tpdo and send_rpdo (called with a number
\* that passes their argument check) and send_emcy raise NetworkError if
\* raise_exception is true and return silently if it is false; either way no frame
\* and no EMCY goes out and the node is left as it was.
C6_NoNetworkRaisesOrReturns ==
    [][(PdoCalled /\ network = "None" /\ ~(pdo'.op \in PdoOps /\ pdo'.n < 1))
          => /\ pdo'.result = IF pdo'.raise_exception THEN "NetworkError" ELSE "returned"
             /\ pdo'.frame = <<>>
             /\ pdo'.emcy = "none"
             /\ UNCHANGED <<nodeVars, stopVars, syncVars, sdoVars, auxVars>>]_vars

\* send_tpdo(1) raised NetworkError after the supervisor tore the network down
C6_Witness ==
    /\ network = "None"
    /\ bus_state = "BUS_DOWN"
    /\ pc = "wait"
    /\ pdo.op = "send_tpdo"
    /\ pdo.n = 1
    /\ pdo.raise_exception
    /\ pdo.result = "NetworkError"

\* C7: when _send_pdo gets to encode the mapped entries and they make more than 8
\* bytes, no PDO frame is sent and the EMCY PROTOCOL_PDO_LEN_EXCEEDED is (the
\* transport not raising); when they make 0..8 bytes, 8 included, the frame is
\* sent (the transport not raising) and no EMCY.
C7_PdoLengthLimit ==
    (pdo.op \in PdoOps /\ pdo.datalen # -1) =>
        IF pdo.datalen > 8
        THEN /\ pdo.frame = <<>>
             /\ pdo.tx_ok => pdo.emcy = "PROTOCOL_PDO_LEN_EXCEEDED"
        ELSE /\ pdo.emcy = "none"
             /\ pdo.tx_ok => pdo.frame = <<PdoCommIndex(pdo), pdo.datalen>>

\* a mapping of 12 bytes: the EMCY went out, the TPDO did not
C7_Witness ==
    /\ pdo.op = "send_tpdo"
    /\ pdo.datalen = 12
    /\ pdo.emcy = "PROTOCOL_PDO_LEN_EXCEEDED"
    /\ pdo.frame = <<>>

\* C8, as stated: send_tpdo and send_rpdo transmit no frame while the local node's
\* NMT state is not OPERATIONAL, and none while the CAN interface is not found.
C8_NoPdoUnlessOperational ==
    [][(PdoCalled /\ pdo'.op \in PdoOps
           /\ (nmt_state # "OPERATIONAL" \/ if_stats = "absent"))
          => pdo'.frame = <<>>]_vars

----------------------------------------------------------------------------
(* Claims about the SYNC handler *)

\* the handler sent the TPDO of slot n: it called _send_pdo for 0x1800 + n
SyncSent(n) == (TPDO_COMM + n) \in Range(sync_frames)

\* C9, as stated: on each SYNC frame, with s the counter after it was advanced, for
\* every slot n whose transmission type is in 1..240 the TPDO of that slot (number
\* n + 1, communication parameter 0x1800 + n) is sent if and only if s mod tt = 0.
C9_SyncSendsSlotPdo ==
    syncs > 0 =>
        \A n \in Slots : tt[n] \in 1 .. 240 => (SyncSent(n) <=> syncs % tt[n] = 0)

\* C10, as stated: two consecutive SYNC-triggered sendings of the TPDO of a slot
\* whose transmission type tt is in 1..240 are exactly tt SYNC frames apart, also
\* across the wrap of the counter from 240 to 1.
C10_EveryTtThSync ==
    \A n \in Slots : (tt[n] \in 1 .. 240 /\ last_gap[n] # 0) => last_gap[n] = tt[n]

\* C11: the TPDO of a slot whose transmission type is 0 is never sent by the SYNC
\* handler, whatever the number of SYNC frames and also after the counter has
\* wrapped from 240 to 1: no SYNC so far has handed its communication parameter
\* to _send_pdo.
C11_ZeroTypeNeverSent ==
    \A n \in Slots : tt[n] = 0 => (~SyncSent(n) /\ since_emit[n] = -1)

\* slot 2 has transmission type 0, slot 1 has 240, and the counter has wrapped
\* twice: the TPDO that loop index 1 sends went out 240 frames after its previous
\* sending, and the handler stopped at slot 2
C11_Witness ==
    /\ tt[2] = 0
    /\ tt[1] = 240
    /\ syncs = 240
    /\ last_gap[0] = 240
    /\ sync_exc = "ZeroDivisionError"
    /\ since_emit[2] = -1

\* C12, as stated: on every SYNC frame the handler walks all 16 slots and completes
\* without raising, for every combination of transmission types, so that a slot
\* that is due is sent whatever the slots before it hold.
C12_SyncHandlerCompletes ==
    syncs > 0 =>
        /\ sync_exc = "none"
        /\ \A n \in Slots : (tt[n] # 0 /\ syncs % tt[n] = 0) => n \in Range(sync_calls)

----------------------------------------------------------------------------
(* Claims about the timed TPDOs *)

\* C13, as stated: while the network of the Node is up, the running timers are
\* exactly one per slot whose transmission type is 0xFE or 0xFF and whose event
\* time is above 0.
C13_OneTimerPerTimedSlot ==
    (network = "attached" /\ node = "LocalNode") => tpdo_timers = TimedSlots

----------------------------------------------------------------------------
(* Claims about the SDO callbacks and the RPDOs *)

\* the positions in the calls of the latest handler that called the callback of key
CallsOf(key) == {k \in 1 .. Len(sdo.calls) : sdo.calls[k].key = key}

\* C14, as stated: after a received RPDO has been handled, every configured map
\* entry's object holds the value decoded from the bytes received for it, and the
\* write callback registered for its name pair has been called exactly once, with
\* that value.
C14_RpdoWritesEveryEntry ==
    sdo.op = "rpdo" =>
        \A i \in 1 .. sdo.map.count :
            LET o == sdo.map.entries[i]
                v == WrittenValue(o, sdo.rdata[i])
            IN  /\ od_value[o] = v
                /\ NamePair(o) \in write_cbs =>
                      /\ Cardinality(CallsOf(NamePair(o))) = 1
                      /\ \A k \in CallsOf(NamePair(o)) : sdo.calls[k].arg = v

\* C15: after an SDO write the object holds the decoded value (the raw bytes for
\* DOMAIN and OCTET_STRING); the write callback is called at most once, exactly
\* when one is registered for the name pair of the object, with the value the
\* object holds, and the object already held that value while the callback ran.
C15_WriteStoresThenCalls ==
    sdo.op = "write" =>
        /\ od_value[sdo.obj] = WrittenValue(sdo.obj, sdo.data)
        /\ Len(sdo.calls) <= 1
        /\ (Len(sdo.calls) = 1) <=> (NamePair(sdo.obj) \in write_cbs)
        /\ \A k \in 1 .. Len(sdo.calls) :
              /\ sdo.calls[k].key = NamePair(sdo.obj)
              /\ sdo.calls[k].arg = od_value[sdo.obj]
              /\ sdo.calls[k].seen = od_value[sdo.obj]

\* a write of the bytes AA to the DOMAIN object, which was empty, with a callback
C15_Witness ==
    /\ sdo.op = "write"
    /\ sdo.obj = "blob"
    /\ sdo.before = BytesVal(<<>>)
    /\ od_value["blob"] = BytesVal(<<170>>)
    /\ Len(sdo.calls) = 1
    /\ sdo.calls[1].arg = BytesVal(<<170>>)

\* C16, as stated: an exception of the write callback does not leave the SDO write
\* handler, and the object keeps the written value.
C16_WriteCallbackErrorSwallowed ==
    sdo.op = "write" =>
        /\ sdo.exc = "none"
        /\ od_value[sdo.obj] = WrittenValue(sdo.obj, sdo.data)

\* C17: an SDO read sends what the read callback registered for the name pair of
\* the object returned, unless none is registered or it returned None, in which
\* case the value of the object is sent; the handler changes no value of the
\* dictionary.
C17_ReadSendsCallbackOrOd ==
    /\ [](sdo.op = "read" =>
             /\ sdo.called <=> (NamePair(sdo.obj) \in read_cbs)
             /\ sdo.sent = IF sdo.called /\ sdo.cb_ret # NoneVal THEN sdo.cb_ret
                           ELSE od_value[sdo.obj])
    /\ [][sdo'.op = "read" => od_value' = od_value]_vars

\* the callback of rec.x returned 0 while the object holds 0xAA: 0 is sent
C17_Witness ==
    /\ sdo.op = "read"
    /\ sdo.obj = "rec.x"
    /\ sdo.called
    /\ sdo.cb_ret = IntVal(0)
    /\ sdo.sent = IntVal(0)
    /\ od_value["rec.x"] = IntVal(170)

----------------------------------------------------------------------------
(* Claims about the classification of a tick and the recovery of the bus *)

\* a step that is one whole tick of the supervisor on a transport other than socketcand
Tick == pc = "body" /\ pc' # "body"

\* C18, as stated: after a tick bus_state is NOT_FOUND iff the interface record and
\* the device node are both missing, DOWN iff the interface is present but not up
\* or the device node exists, and otherwise (interface up) UP_NET_DOWN iff no
\* network was attached when the tick started and UP_NET_UP iff one was.
C18_TickClassification ==
    [][Tick =>
         /\ (bus_state' = "BUS_NOT_FOUND") <=> (if_stats = "absent" /\ ~path_exists)
         /\ (bus_state' = "BUS_DOWN") <=> (if_stats = "down" \/ path_exists)
         /\ (bus_state' = "BUS_UP_NETWORK_DOWN")
               <=> (if_stats = "up" /\ ~path_exists /\ network # "attached")
         /\ (bus_state' = "BUS_UP_NETWORK_UP")
               <=> (if_stats = "up" /\ ~path_exists /\ network = "attached")]_vars

\* C19, as stated: a tick never takes bus_state from DOWN or NOT_FOUND to
\* UP_NET_UP, the tick that leaves DOWN or NOT_FOUND for UP_NET_DOWN creates the
\* network and the node handle, and after a tick that classified UP_NET_UP a node
\* handle exists on an attached network.
C19_FreshNetworkBeforeUp ==
    [][Tick =>
         /\ bus_state \in {"BUS_DOWN", "BUS_NOT_FOUND"} => bus_state' # "BUS_UP_NETWORK_UP"
         /\ (bus_state' = "BUS_UP_NETWORK_DOWN" /\ pc' = "wait")
               => (network' = "attached" /\ node' = "LocalNode")
         /\ bus_state' = "BUS_UP_NETWORK_UP"
               => (network' = "attached" /\ node' = "LocalNode")]_vars

\* C20, as stated: the tick that finds the link up again after DOWN and brings the
\* network up emits the EMCY COMM_RECOVERED_BUS, and a tick that finds the link
\* still down emits none.
C20_RecoveredBusEmcy ==
    [][Tick =>
         /\ (bus_state = "BUS_DOWN" /\ bus_state' \in {"BUS_UP_NETWORK_DOWN",
                                                        "BUS_UP_NETWORK_UP"}
             /\ network' = "attached" /\ pc' = "wait")
               => "emcy" \in io'
         /\ bus_state' = "BUS_DOWN" => "emcy" \notin io']_vars

----------------------------------------------------------------------------
(* Claims about concurrent use of the dictionary *)

\* C21, as stated: the data of a transmitted TPDO is the encoding of the values
\* its mapped objects held together at one instant of the send.
C21_TpdoSnapshotAtomic ==
    tx.pc = "sent" => tx.data \in od_seen

\* C22, as stated: od_write_bitfield is atomic with respect to an SDO write of the
\* same entry: the value it stores is the modification of the value the entry
\* holds when it stores, so that the result is that of the two mutations run
\* one after the other.
C22_BitfieldWriteAtomic ==
    [][(bf.pc = "read" /\ bf'.pc = "stored")
          => od_value'["rec.x"] =
               IntVal(WriteBitfieldValue(od_value["rec.x"].v, FieldBits(bf.field),
                                         bf.x))]_vars

\* the stored value is a number within the bounds of the object
WithinBounds(o, value) ==
    value.kind \in {"int", "float"} /\ ObjMin(o) <= value.v /\ value.v <= ObjMax(o)

\* C26, as stated: a successful od_write of a numeric variable with bounds leaves
\* a stored value within [min, max], and a rejected od_write leaves the value
\* that was stored before.
C26_OdWriteChecked ==
    odw.op = "od_write" =>
        IF odw.result = "ok" THEN WithinBounds(odw.obj, odw.after)
        ELSE odw.after = odw.before

RECURSIVE BitsSum(_)
\* the sum of a set of powers of two
BitsSum(S) == IF S = {} THEN 0 ELSE LET e == CHOOSE e \in S : TRUE IN e + BitsSum(S \ {e})

\* the bits of the field, as a mask
FieldMask(bits) == BitsSum({2 ^ bits[k] : k \in 1 .. Len(bits)})

\* C27, as stated: writing x into a field F with od_write_bitfield and reading F
\* back with od_read_bitfield returns x & ((1 << |F|) - 1), for every field, and
\* the write leaves the bits outside F as they were when x fits in |F| bits.
C27_BitfieldRoundTrip ==
    LET bits == FieldBits(bf.field)
        mask == FieldMask(bits)
    IN  /\ bf.exc = "none"
        /\ (bf.pc = "read_back" /\ bf.read_from = bf.stored)
              => bf.result = bf.x % (2 ^ Len(bits))
        /\ (bf.pc = "stored" /\ bf.x < 2 ^ Len(bits))
              => bf.stored - BitAnd(bf.stored, mask) = bf.tmp - BitAnd(bf.tmp, mask)

----------------------------------------------------------------------------
(* Claims about the App *)

\* the sequence s in reverse
Reversed(s) == [k \in 1 .. Len(s) |-> s[Len(s) + 1 - k]]

\* C23, as stated: run starts the resources in registration order and ends them
\* in the reverse of that order.
C23_EndsInReverseOrder ==
    app.pc = "done" => (app.started = app.res /\ app.ended = Reversed(app.res))

\* the records of both kinds, as (kind, slot) pairs
PdoRecords == {"rpdo", "tpdo"} \X PdoSlots

\* the COB-ID setup gave a record
CobIdOf(rec) == IF rec[1] = "rpdo" THEN cob.rpdo[rec[2]] ELSE cob.tpdo[rec[2]]

\* the low 12 bits of the default of the record are one of the four defaults
HasReservedDefault(rec) ==
    IF rec[1] = "rpdo"
    THEN cob.rdef[rec[2]] % 4096 \in {512 + cob.node_id, 768 + cob.node_id,
                                      1024 + cob.node_id, 1280 + cob.node_id}
    ELSE cob.tdef[rec[2]] % 4096 \in {384 + cob.node_id, 640 + cob.node_id,
                                      896 + cob.node_id, 1152 + cob.node_id}

\* C24, as stated: after setup the 16 TPDO COB-IDs and the 16 RPDO COB-IDs are
\* pairwise distinct, whatever the node id and the default COB-IDs.
C24_CobIdsDistinct ==
    cob.pc = "setup" =>
        \A a, b \in PdoRecords : a # b => CobIdOf(a) # CobIdOf(b)

\* C24, amended: after setup the COB-IDs of the records whose default is one of
\* the four defaults (in its low 12 bits) are pairwise distinct.
C24_RewrittenCobIdsDistinct ==
    cob.pc = "setup" =>
        \A a, b \in {r \in PdoRecords : HasReservedDefault(r)} :
            a # b => CobIdOf(a) # CobIdOf(b)

\* setup has run on a dictionary with a record of each kind whose default was
\* rewritten in slot 4 or above, and with a record that kept its own COB-ID
C24_Witness ==
    /\ cob.pc = "setup"
    /\ HasReservedDefault(<<"tpdo", 4>>)
    /\ HasReservedDefault(<<"rpdo", 15>>)
    /\ \E r \in PdoRecords : ~HasReservedDefault(r)

\* C25, as stated: a record whose default is a reserved default in its low 12
\* bits gets base + 0x100 * (n mod 4) + node_id + (n div 4), any other record
\* keeps its default; with node id 0x10 TPDO1..4 get 0x190, 0x290, 0x390, 0x490,
\* TPDO5 gets 0x191 and TPDO16 gets 0x493.
C25_CobIdRewrite ==
    cob.pc = "setup" =>
        /\ \A n \in PdoSlots :
              /\ cob.rpdo[n] = IF HasReservedDefault(<<"rpdo", n>>)
                               THEN 512 + 256 * (n % 4) + cob.node_id + (n \div 4)
                               ELSE cob.rdef[n]
              /\ cob.tpdo[n] = IF HasReservedDefault(<<"tpdo", n>>)
                               THEN 384 + 256 * (n % 4) + cob.node_id + (n \div 4)
                               ELSE cob.tdef[n]
        /\ (cob.node_id = 16 /\ \A n \in PdoSlots : HasReservedDefault(<<"tpdo", n>>))
              => /\ <<cob.tpdo[0], cob.tpdo[1], cob.tpdo[2], cob.tpdo[3]>>
                       = <<400, 656, 912, 1168>>
                 /\ cob.tpdo[4] = 401
                 /\ cob.tpdo[15] = 1171

\* setup has run with node id 0x10 on reserved TPDO defaults that carry bit 30,
\* and on RPDO defaults of which one is not reserved
C25_Witness ==
    /\ cob.pc = "setup"
    /\ cob.node_id = 16
    /\ \A n \in PdoSlots : HasReservedDefault(<<"tpdo", n>>) /\ cob.tdef[n] >= COB_NO_RTR
    /\ cob.tpdo[15] = 1171
    /\ \E n \in PdoSlots : ~HasReservedDefault(<<"rpdo", n>>) /\ cob.rpdo[n] = cob.rdef[n]

----------------------------------------------------------------------------
(* Claims about the ticks that find the interface missing or down, and about
   socketcand *)

\* C28: after a tick that classifies NOT_FOUND or DOWN the node handle is None and
\* the list of TPDO timers is empty, also when network.disconnect() raised.
C28_DownTickDropsNode ==
    [][(Tick /\ bus_state' \in {"BUS_NOT_FOUND", "BUS_DOWN"})
          => (node' = "None" /\ tpdo_timers' = {})]_vars

\* a DOWN tick found the network attached and disconnect() raised: the network
\* and the node handle were set to None by the handler of the exception
C28_Witness ==
    /\ pc = "wait"
    /\ bus_state = "BUS_DOWN"
    /\ "net_stop" \in io
    /\ network = "None"
    /\ node = "None"

\* C29: a tick that finds the interface missing sets bus_state to NOT_FOUND, leaves
\* the network torn down and runs no link reset; it logs the critical message iff
\* the flag first_bus_down is set, and clears the flag, which only a tick that
\* classifies another state sets again.
C29_NotFoundIdles ==
    [][/\ (Tick /\ if_stats = "absent" /\ ~path_exists)
            => /\ bus_state' = "BUS_NOT_FOUND"
               /\ node' = "None"
               /\ network' # "attached"
               /\ "link_reset" \notin io'
               /\ "net_start" \notin io'
               /\ "critical" \in io' <=> first_bus_down
               /\ ~first_bus_down'
       /\ (Tick /\ ~(if_stats = "absent" /\ ~path_exists)) => "critical" \notin io'
       /\ (~first_bus_down /\ first_bus_down')
            => (Tick /\ bus_state' # "BUS_NOT_FOUND")]_vars

\* the second NOT_FOUND tick in a row: nothing is logged, the link is not reset
C29_Witness ==
    /\ pc = "wait"
    /\ bus_state = "BUS_NOT_FOUND"
    /\ "if_probe" \in io
    /\ "critical" \notin io
    /\ ~first_bus_down

\* C30, as stated: on socketcand the supervisor never probes the interface (and
\* resets no link), starts the network exactly once, at entry, and bus_state is
\* UP_NET_UP after every tick.
C30_SocketcandNeverProbes ==
    [][(bus_type = "socketcand" /\ pc' # pc)
          => /\ io' \cap {"if_probe", "path_probe", "link_reset"} = {}
             /\ "net_start" \in io' <=> pc = "idle"
             /\ pc' = "wait" => bus_state' = "BUS_UP_NETWORK_UP"]_vars

----------------------------------------------------------------------------
(* Claims about the SYNC counter, the node handle during a send, the
   resources of a failing run and the flags of the COB-IDs *)

\* C31: every SYNC frame advances the counter by one, the frame received at 240
\* sets it to 1, and so the counter is in 1..240 after every frame (it is 0 only
\* before the first one).
C31_SyncCounterCycles ==
    [][/\ syncs' \in 1 .. 240
       /\ syncs' = IF syncs = 240 THEN 1 ELSE syncs + 1]_vars

\* the counter is 1 again after it has been through 240 twice: a TPDO sent every
\* 240th SYNC went out a second time before
C31_Witness ==
    /\ syncs = 1
    /\ \E n \in Slots : last_gap[n] = 240

\* C32, as stated: a _send_pdo that passed its check of the node handle never
\* uses a handle that is None afterwards, whatever the supervisor does meanwhile.
C32_SendNeverUsesNone ==
    tx.pc # "raised"

\* the number of end() calls made on the resource r
EndCalls(r) == Cardinality({k \in 1 .. Len(app.ended) : app.ended[k] = r})

\* C33, as stated, for the resources whose start() returned: when run() is left,
\* by its return or by the exception of a later start(), end() has been called
\* exactly once on each of them, also when the monitor loop raised.
C33_StartedResourcesEnded ==
    app.pc \in {"done", "raised"} =>
        \A r \in Range(app.started) \ {app.start_exc} : EndCalls(r) = 1

\* the default COB-ID of a record
DefaultOf(rec) == IF rec[1] = "rpdo" THEN cob.rdef[rec[2]] ELSE cob.tdef[rec[2]]

\* the bits of a COB-ID above the 29-bit identifier
FlagBits(cob_id) == cob_id \div 2 ^ 29

\* C34, as stated: setup leaves the bits above the 29-bit identifier of every
\* COB-ID as they are in the default, whether or not it rewrites the identifier.
C34_FlagBitsKept ==
    cob.pc = "setup" =>
        \A rec \in PdoRecords : FlagBits(CobIdOf(rec)) = FlagBits(DefaultOf(rec))

====
